---- MODULE Spec2Model ----
(***************************************************************************)
(* Meeting automation: the Meeting Store and Scheduler of                  *)
(* src/meeting_manager.py and the platform handlers of                     *)
(* src/platform_handlers.py, as a state machine.                           *)
(*                                                                         *)
(* Time is counted in whole minutes since midnight of day 0.  A datetime   *)
(* is a record [t, aware]: t the minute, aware whether it carries a        *)
(* tzinfo.  datetime.datetime.now() is always naive.                       *)
(***************************************************************************)
EXTENDS Integers, Sequences, FiniteSets, TLC

\* ------------------------------------------------------------------ bounds
\* Minutes in a day of the model (1440 in reality).
MinPerDay == 3
\* The clock stops advancing at this minute.
MaxTime == 7
\* The job registry of the schedule library holds at most this many jobs.
MaxJobs == 2
\* get_handler is called at most this many times.
MaxHandlers == 2

\* ------------------------------------------------------- program constants
\* datetime.timedelta(minutes=1) of schedule_meeting.
LeadMinutes == 1

None == "None"

MeetingIds == {"m1", "m2"}
ThreadIds == {"t1", "t2"}

\* PlatformType: the members, and the value of each.
PlatformType == {"PlatformType.ZOOM", "PlatformType.GOOGLE_MEET", "PlatformType.TEAMS"}

PlatformValue(p) ==
    CASE p = "PlatformType.ZOOM" -> "zoom"
      [] p = "PlatformType.GOOGLE_MEET" -> "google_meet"
      [] p = "PlatformType.TEAMS" -> "teams"
      [] OTHER -> p

\* str.upper() on the strings a snapshot holds as platform.
Upper(s) ==
    CASE s = "zoom" -> "ZOOM"
      [] s = "google_meet" -> "GOOGLE_MEET"
      [] s = "teams" -> "TEAMS"
      [] s = "webex" -> "WEBEX"
      [] OTHER -> s

\* hasattr(PlatformType, name) / getattr(PlatformType, name).
HasPlatformAttr(name) == name \in {"ZOOM", "GOOGLE_MEET", "TEAMS"}
GetPlatformAttr(name) ==
    CASE name = "ZOOM" -> "PlatformType.ZOOM"
      [] name = "GOOGLE_MEET" -> "PlatformType.GOOGLE_MEET"
      [] name = "TEAMS" -> "PlatformType.TEAMS"

\* ------------------------------------------------------------ the inputs
Naive(t) == [t |-> t, aware |-> FALSE]
Aware(t) == [t |-> t, aware |-> TRUE]

\* The Meeting dataclass.  title, password, recurrence_pattern and
\* required_email are carried through the Store unread and are left out.
Meeting(id, platform, start, url, mid, rec) ==
    [id |-> id, platform |-> platform, start_time |-> start, duration |-> 30,
     url |-> url, meeting_id |-> mid, recurring |-> rec]

\* The meetings add_meeting is called with: per id, one that starts today,
\* one that starts on a later day, one with a timezone-aware start, a
\* recurring one, and a Teams meeting with neither url nor meeting id.
MeetingPool ==
    { Meeting("m1", "PlatformType.ZOOM", Naive(2), None, "123456789", FALSE),
      Meeting("m1", "PlatformType.ZOOM", Naive(MinPerDay + 2), None, "123456789", FALSE),
      Meeting("m1", "PlatformType.ZOOM", Aware(2), None, "123456789", FALSE),
      Meeting("m2", "PlatformType.GOOGLE_MEET", Naive(2), "https://meet.google.com/abc", None, TRUE),
      Meeting("m2", "PlatformType.TEAMS", Naive(MinPerDay + 1), "https://teams.microsoft.com/l/1", None, FALSE),
      Meeting("m2", "PlatformType.TEAMS", Naive(2), None, None, FALSE) }

\* ------------------------------------------------- the registry (a dict)
\* self.meetings is a dict: here the sequence of its values in insertion
\* order, the key of each being its id.
Keys(ms) == {ms[i].id : i \in 1..Len(ms)}
Get(ms, id) == ms[CHOOSE i \in 1..Len(ms) : ms[i].id = id]
DictSet(ms, m) ==
    IF m.id \in Keys(ms)
    THEN [i \in 1..Len(ms) |-> IF ms[i].id = m.id THEN m ELSE ms[i]]
    ELSE Append(ms, m)
DictDel(ms, id) == SelectSeq(ms, LAMBDA x : x.id # id)

\* ----------------------------------------------------- the schedule library
TimeOfDay(t) == t % MinPerDay
DayStart(t) == t - TimeOfDay(t)

\* Job._schedule_next_run of a daily job with at_time `at`, at minute t:
\* the day after t at `at`, moved back to today when `at` is still ahead.
NextRun(at, t) ==
    LET next == DayStart(t + MinPerDay) + at
    IN  IF at > TimeOfDay(t) THEN next - MinPerDay ELSE next

\* schedule.every().day.at(time_str).do(self.join_meeting, meeting_id=id).tag(id)
NewJob(id, at, t) == [tag |-> id, at |-> at, next_run |-> NextRun(at, t)]

TriggerCount(js, id) == Cardinality({i \in 1..Len(js) : js[i].tag = id})

\* ------------------------------------------------------ MeetingManager
\* meeting.start_time - datetime.timedelta(minutes=1)
JoinTime(m) == m.start_time.t - LeadMinutes

\* schedule_meeting without its test for a join time in the past.
ScheduleMeetingNoPastTest(m, js, t) ==
    IF m.start_time.aware
    THEN [raised |-> TRUE, jobs |-> js]
    ELSE [raised |-> FALSE,
          jobs |-> Append(js, NewJob(m.id, TimeOfDay(JoinTime(m)), t))]

\* schedule_meeting(meeting) at minute t, on the job registry js.  Comparing
\* an aware join_time with the naive now() raises TypeError.  strftime("%H:%M")
\* keeps the time of day of join_time and drops its date.
ScheduleMeeting(m, js, t) ==
    IF m.start_time.aware
    THEN [raised |-> TRUE, jobs |-> js]
    ELSE IF JoinTime(m) < t
         THEN [raised |-> FALSE, jobs |-> js]
         ELSE [raised |-> FALSE,
               jobs |-> Append(js, NewJob(m.id, TimeOfDay(JoinTime(m)), t))]

\* The snapshot file: absent, not JSON ("corrupt"), JSON that is not a
\* mapping, or a mapping ("ok") whose records are recs, in file order.
File(state, recs) == [state |-> state, recs |-> recs]

\* datetime.isoformat() / datetime.fromisoformat(): the text of a datetime.
IsoFormat(d) == [kind |-> "iso", t |-> d.t, aware |-> d.aware]
FromIsoFormat(x) == [t |-> x.t, aware |-> x.aware]
\* timedelta.total_seconds() / timedelta(seconds=n), durations in minutes.
TotalSeconds(d) == [kind |-> "num", v |-> d * 60]
TimedeltaSeconds(x) == x.v \div 60

\* One record of the mapping save_meetings writes.
Record(m) ==
    [id |-> m.id, platform |-> PlatformValue(m.platform),
     start_time |-> IsoFormat(m.start_time), duration |-> TotalSeconds(m.duration),
     url |-> m.url, meeting_id |-> m.meeting_id, recurring |-> m.recurring]

\* save_meetings(): the whole registry, in dict order.
SaveMeetings(ms) == File("ok", [i \in 1..Len(ms) |-> Record(ms[i])])

\* The platform of a loaded record.
LoadPlatform(v) == IF HasPlatformAttr(Upper(v)) THEN GetPlatformAttr(Upper(v)) ELSE v

\* The loop of load_meetings over the records still to read: ok is FALSE when
\* a record raised, with the registry and the jobs as they were at that point.
RECURSIVE LoadRecords(_, _, _, _)
LoadRecords(recs, ms, js, t) ==
    IF recs = << >>
    THEN [ok |-> TRUE, meetings |-> ms, jobs |-> js]
    ELSE LET d == Head(recs)
             failed == [ok |-> FALSE, meetings |-> ms, jobs |-> js]
         IN  IF d.start_time.kind # "iso" \/ d.duration.kind # "num"
             THEN failed
             ELSE LET m == [id |-> d.id, platform |-> LoadPlatform(d.platform),
                            start_time |-> FromIsoFormat(d.start_time),
                            duration |-> TimedeltaSeconds(d.duration),
                            url |-> d.url, meeting_id |-> d.meeting_id,
                            recurring |-> d.recurring]
                      ms2 == DictSet(ms, m)
                  IN  IF m.recurring
                      THEN LET s == ScheduleMeeting(m, js, t)
                           IN  IF s.raised
                               THEN [ok |-> FALSE, meetings |-> ms2, jobs |-> js]
                               ELSE LoadRecords(Tail(recs), ms2, s.jobs, t)
                      ELSE IF m.start_time.aware
                           THEN [ok |-> FALSE, meetings |-> ms2, jobs |-> js]
                           ELSE IF m.start_time.t > t
                                THEN LET s == ScheduleMeeting(m, js, t)
                                     IN  LoadRecords(Tail(recs), ms2, s.jobs, t)
                                ELSE LoadRecords(Tail(recs), ms2, js, t)

\* load_meetings without its try/except: the exception leaves the method.
LoadMeetingsUncaught(f, ms, js, t) ==
    IF f.state = "absent"
    THEN [raised |-> FALSE, meetings |-> ms, jobs |-> js]
    ELSE IF f.state # "ok"
         THEN [raised |-> TRUE, meetings |-> ms, jobs |-> js]
         ELSE LET r == LoadRecords(f.recs, ms, js, t)
              IN  [raised |-> ~r.ok, meetings |-> r.meetings, jobs |-> r.jobs]

\* load_meetings() on registry ms: every exception is caught and the
\* registry is emptied; the jobs registered before it stay registered.
LoadMeetings(f, ms, js, t) ==
    IF f.state = "absent"
    THEN [raised |-> FALSE, meetings |-> ms, jobs |-> js]
    ELSE IF f.state # "ok"
         THEN [raised |-> FALSE, meetings |-> << >>, jobs |-> js]
         ELSE LET r == LoadRecords(f.recs, ms, js, t)
              IN  [raised |-> FALSE,
                   meetings |-> IF r.ok THEN r.meetings ELSE << >>,
                   jobs |-> r.jobs]

\* add_meeting without its test for a known id: the entry is overwritten.
AddMeetingOverwrite(m, ms, f, js, t) ==
    LET ms2 == DictSet(ms, m)
        s == ScheduleMeeting(m, js, t)
    IN  [ret |-> IF s.raised THEN "raise" ELSE "True",
         meetings |-> ms2, file |-> SaveMeetings(ms2), jobs |-> s.jobs]

\* add_meeting(meeting)
AddMeetingResult(m, ms, f, js, t) ==
    IF m.id \in Keys(ms)
    THEN [ret |-> "False", meetings |-> ms, file |-> f, jobs |-> js]
    ELSE LET ms2 == DictSet(ms, m)
             s == ScheduleMeeting(m, js, t)
         IN  [ret |-> IF s.raised THEN "raise" ELSE "True",
              meetings |-> ms2, file |-> SaveMeetings(ms2), jobs |-> s.jobs]

\* remove_meeting without its save_meetings(): the snapshot keeps the entry.
RemoveMeetingNoSave(id, ms, f) ==
    IF id \in Keys(ms)
    THEN [ret |-> "True", meetings |-> DictDel(ms, id), file |-> f]
    ELSE [ret |-> "False", meetings |-> ms, file |-> f]

\* remove_meeting(meeting_id)
RemoveMeetingResult(id, ms, f) ==
    IF id \in Keys(ms)
    THEN [ret |-> "True", meetings |-> DictDel(ms, id),
          file |-> SaveMeetings(DictDel(ms, id))]
    ELSE [ret |-> "False", meetings |-> ms, file |-> f]

\* What a save_meetings() that raised leaves on disk: open() raised and the
\* file is as it was, or json.dump raised after open() truncated it.
FailedWrite(f) == {f, File("corrupt", << >>)}

\* add_meeting(meeting) when save_meetings() raises: the entry was assigned,
\* the exception leaves add_meeting before schedule_meeting; left is the file.
AddMeetingSaveRaises(m, ms, f, js, left) ==
    IF m.id \in Keys(ms)
    THEN [ret |-> "False", meetings |-> ms, file |-> f, jobs |-> js]
    ELSE [ret |-> "raise_io", meetings |-> DictSet(ms, m), file |-> left, jobs |-> js]

\* remove_meeting(meeting_id) when save_meetings() raises: the entry was
\* deleted.
RemoveMeetingSaveRaises(id, ms, f, left) ==
    IF id \in Keys(ms)
    THEN [ret |-> "raise_io", meetings |-> DictDel(ms, id), file |-> left]
    ELSE [ret |-> "False", meetings |-> ms, file |-> f]

\* schedule.run_pending(): the jobs whose should_run holds at minute t, in
\* the order sorted() gives them (by next_run, registry order among equals).
RECURSIVE SortJobs(_, _)
SortJobs(js, S) ==
    IF S = {}
    THEN << >>
    ELSE LET i == CHOOSE i \in S : \A k \in S :
                      \/ js[i].next_run < js[k].next_run
                      \/ js[i].next_run = js[k].next_run /\ i <= k
         IN  <<i>> \o SortJobs(js, S \ {i})

RunnableJobs(js, t) == SortJobs(js, {i \in 1..Len(js) : t >= js[i].next_run})

\* Job.run after job_func returned, at minute t: last_run = now, next run set.
JobRan(js, j, t) == [js EXCEPT ![j].next_run = NextRun(js[j].at, t)]

\* ------------------------------------------------------ MeetingHandler
\* One handler instance and the join attempt it runs.  events lists, in
\* order, what the attempt did to its collaborators; target is where the
\* browser was sent for the meeting; current_email is the account the probe
\* of verify_account_match found; instance tells the handler objects apart,
\* in the order get_handler made them.
NoTarget == [base |-> None, id |-> None]
UrlTarget(url) == [base |-> url, id |-> None]
ZoomJoinById(mid) == [base |-> "https://zoom.us/wc/join/", id |-> mid]
MeetById(mid) == [base |-> "https://meet.google.com/", id |-> mid]

NoHandler ==
    [pc |-> "none", platform |-> None, use_browser |-> FALSE, app_installed |-> FALSE,
     permissions_granted |-> FALSE, driver |-> FALSE,
     url |-> None, meeting_id |-> None, password |-> None, required_email |-> None,
     current_email |-> None, instance |-> 0, events |-> << >>, target |-> NoTarget, account_ok |-> None, ret |-> None]

\* MeetingHandler.__init__ with the platform_type of the subclass.
NewHandler(platform) == [NoHandler EXCEPT !.pc = "ready", !.platform = platform]

Emit(h, e) == [h EXCEPT !.events = Append(@, e)]
Did(h, e) == \E i \in 1..Len(h.events) : h.events[i] = e

\* str.lower() on the account names of the model.
Lower(s) == IF s = "A@X.com" THEN "a@x.com" ELSE s

\* _setup_driver(): creates the WebDriver unless there is one; ok is whether
\* the browser could be started.
SetupDriver(h, ok) ==
    IF h.driver
    THEN [raised |-> FALSE, h |-> h]
    ELSE IF ok
         THEN [raised |-> FALSE, h |-> [Emit(h, "driver") EXCEPT !.driver = TRUE]]
         ELSE [raised |-> TRUE, h |-> h]

\* _cleanup()
Cleanup(h) == IF h.driver THEN [Emit(h, "quit") EXCEPT !.driver = FALSE] ELSE h

\* _pre_grant_permissions(url): once per handler; an error is swallowed.
PreGrantPermissions(h, ok) ==
    IF h.permissions_granted \/ ~ok
    THEN h
    ELSE [Emit(h, "grant") EXCEPT !.permissions_granted = TRUE]

\* detect_installed_apps().get(platform_type, False): the probe knows zoom
\* and teams only.
AppInstalled(platform, installed) == platform \in {"zoom", "teams"} /\ installed

\* _handle_login with a Google sign-in fallback that completes and returns
\* True, as sign_in_with_google is written to do.
HandleLoginGoogleSucceeds(h, e) ==
    LET h1 == Emit(h, "credential")
        h2 == Emit(h1, "signin")
    IN  IF ~e.secret
        THEN [ret |-> FALSE, h |-> h1]
        ELSE IF e.login_ok /\ e.indicator
             THEN [ret |-> TRUE, h |-> Emit(h2, "indicator")]
             ELSE IF h.platform = "zoom"
                  THEN [ret |-> TRUE, h |-> Emit(h2, "google")]
                  ELSE [ret |-> FALSE, h |-> h2]

\* _handle_login(email) of the three handlers.  e.secret: the keyring holds
\* a password; e.login_ok: the sign-in form could be driven; e.indicator: the
\* logged-in indicator appeared.  Zoom falls back to sign_in_with_google,
\* which calls the undefined _handle_google_auth and so returns False.
HandleLogin(h, e) ==
    LET h1 == Emit(h, "credential")
        h2 == Emit(h1, "signin")
    IN  IF ~e.secret
        THEN [ret |-> FALSE, h |-> h1]
        ELSE IF e.login_ok /\ e.indicator
             THEN [ret |-> TRUE, h |-> Emit(h2, "indicator")]
             ELSE IF h.platform = "zoom"
                  THEN [ret |-> FALSE, h |-> Emit(h2, "google")]
                  ELSE [ret |-> FALSE, h |-> h2]

\* _logout(): the logout page is opened; ok is whether the sign-out button
\* could be clicked, after which the cookies are deleted.
Logout(h, ok) ==
    IF ok
    THEN [ret |-> TRUE, h |-> Emit(Emit(h, "logout"), "delete_cookies")]
    ELSE [ret |-> FALSE, h |-> Emit(h, "logout")]

DialogEvent(decision) ==
    CASE decision = "switch" -> "dialog_switch"
      [] decision = "keep" -> "dialog_keep"
      [] decision = "abort" -> "dialog_abort"
      [] OTHER -> "dialog_error"

\* _handle_account_switch calling _handle_login whatever _logout returned.
HandleAccountSwitchLoginAnyway(h, e) ==
    LET h1 == Emit(h, DialogEvent(e.decision))
    IN  CASE e.decision = "switch" -> HandleLogin(Logout(h1, e.logout_ok).h, e)
          [] e.decision = "keep" -> [ret |-> TRUE, h |-> h1]
          [] OTHER -> [ret |-> FALSE, h |-> h1]

\* _handle_account_switch(current, required): e.decision is the button of
\* the dialog, or "error" when the dialog raised.
HandleAccountSwitch(h, e) ==
    LET h1 == Emit(h, DialogEvent(e.decision))
    IN  CASE e.decision = "switch" ->
               LET o == Logout(h1, e.logout_ok)
               IN  IF o.ret THEN HandleLogin(o.h, e) ELSE [ret |-> FALSE, h |-> o.h]
          [] e.decision = "keep" -> [ret |-> TRUE, h |-> h1]
          [] OTHER -> [ret |-> FALSE, h |-> h1]

\* verify_account_match showing the mismatch dialog when no account is
\* signed in.
VerifyAccountMatchDialogOnNone(h, e) ==
    LET h1 == [Emit(h, "probe") EXCEPT !.current_email = e.current]
    IN  IF e.current = None \/ Lower(e.current) # Lower(h.required_email)
        THEN HandleAccountSwitch(h1, e)
        ELSE [ret |-> TRUE, h |-> h1]

\* verify_account_match comparing the two account names as they are written.
VerifyAccountMatchCaseSensitive(h, e) ==
    LET h1 == [Emit(h, "probe") EXCEPT !.current_email = e.current]
    IN  IF e.current = None
        THEN HandleLogin(h1, e)
        ELSE IF e.current # h.required_email
             THEN HandleAccountSwitch(h1, e)
             ELSE [ret |-> TRUE, h |-> h1]

\* verify_account_match(required_email): e.current is the account the probe
\* finds, or None.
VerifyAccountMatch(h, e) ==
    LET h1 == [Emit(h, "probe") EXCEPT !.current_email = e.current]
    IN  IF e.current = None
        THEN HandleLogin(h1, e)
        ELSE IF Lower(e.current) # Lower(h.required_email)
             THEN HandleAccountSwitch(h1, e)
             ELSE [ret |-> TRUE, h |-> h1]

\* The prologue of join_meeting without the `if required_email:` test: the
\* browser branch always calls verify_account_match.
JoinMeetingRouteAlwaysVerify(h, e) ==
    LET s == SetupDriver(h, e.driver_ok)
        h1 == PreGrantPermissions(s.h, e.grant_ok)
        h2 == [h1 EXCEPT !.app_installed = AppInstalled(h.platform, e.installed)]
    IN  IF s.raised
        THEN [h EXCEPT !.ret = "False", !.pc = "finally"]
        ELSE IF ~h2.use_browser /\ h2.app_installed
             THEN [h2 EXCEPT !.pc = "app"]
             ELSE [h2 EXCEPT !.pc = "reconcile"]

\* The prologue of join_meeting with a route test that does not read
\* use_browser.
JoinMeetingRouteIgnoreForced(h, e) ==
    LET s == SetupDriver(h, e.driver_ok)
        h1 == PreGrantPermissions(s.h, e.grant_ok)
        h2 == [h1 EXCEPT !.app_installed = AppInstalled(h.platform, e.installed)]
    IN  IF s.raised
        THEN [h EXCEPT !.ret = "False", !.pc = "finally"]
        ELSE IF h2.app_installed
             THEN [h2 EXCEPT !.pc = "app"]
             ELSE IF h2.required_email # None
                  THEN [h2 EXCEPT !.pc = "reconcile"]
                  ELSE [h2 EXCEPT !.pc = "browser"]

\* The prologue of join_meeting: driver, permissions, route decision.
JoinMeetingRoute(h, e) ==
    LET s == SetupDriver(h, e.driver_ok)
        h1 == PreGrantPermissions(s.h, e.grant_ok)
        h2 == [h1 EXCEPT !.app_installed = AppInstalled(h.platform, e.installed)]
    IN  IF s.raised
        THEN [h EXCEPT !.ret = "False", !.pc = "finally"]
        ELSE IF ~h2.use_browser /\ h2.app_installed
             THEN [h2 EXCEPT !.pc = "app"]
             ELSE IF h2.required_email # None
                  THEN [h2 EXCEPT !.pc = "reconcile"]
                  ELSE [h2 EXCEPT !.pc = "browser"]

\* The browser branch of join_meeting after `if required_email:`: the value
\* of verify_account_match is dropped and _join_via_browser is called.
JoinMeetingReconcile(h, e) ==
    LET v == VerifyAccountMatch(h, e)
    IN  [v.h EXCEPT !.account_ok = IF v.ret THEN "True" ELSE "False", !.pc = "browser"]

\* _join_via_app reporting failure when Popen raises, without the browser.
JoinViaAppNoFallback(h, ok) ==
    LET spawns == IF h.platform = "zoom"
                  THEN h.url # None \/ h.meeting_id # None
                  ELSE h.url # None
    IN  IF h.platform = "google_meet"
        THEN [h EXCEPT !.pc = "browser"]
        ELSE IF ~spawns
             THEN [h EXCEPT !.ret = "True", !.pc = "finally"]
             ELSE IF ok
                  THEN [Emit(h, "spawn") EXCEPT !.ret = "True", !.pc = "finally"]
                  ELSE [Emit(h, "spawn_error") EXCEPT !.ret = "False", !.pc = "finally"]

\* _join_via_app of the three handlers; ok is whether Popen succeeded.  When
\* it raised, use_browser is set and _join_via_browser is called.
JoinViaApp(h, ok) ==
    LET spawns == IF h.platform = "zoom"
                  THEN h.url # None \/ h.meeting_id # None
                  ELSE h.url # None
    IN  IF h.platform = "google_meet"
        THEN [h EXCEPT !.pc = "browser"]
        ELSE IF ~spawns
             THEN [h EXCEPT !.ret = "True", !.pc = "finally"]
             ELSE IF ok
                  THEN [Emit(h, "spawn") EXCEPT !.ret = "True", !.pc = "finally"]
                  ELSE [Emit(h, "spawn_error") EXCEPT !.use_browser = TRUE, !.pc = "browser"]

Navigate(h, target) == [Emit(h, "navigate") EXCEPT !.target = target]
Returned(h, ret) == [h EXCEPT !.ret = ret, !.pc = "finally"]

\* ZoomHandler._join_via_browser clicking Join without filling the password
\* field.
ZoomJoinViaBrowserSkipPassword(h, e) ==
    LET h1 == PreGrantPermissions(h, e.grant_ok)
    IN  IF h.url # None
        THEN IF e.nav_ok
             THEN Returned(Navigate(h1, UrlTarget(h.url)), "True")
             ELSE Returned(h1, "False")
        ELSE IF h.meeting_id = None \/ ~e.nav_ok
             THEN Returned(h1, "False")
             ELSE LET h2 == Navigate(h1, ZoomJoinById(h.meeting_id))
                  IN  IF e.pwd_field /\ e.join_btn
                      THEN Returned(Emit(h2, "click_join"), "True")
                      ELSE Returned(h2, "True")

\* ZoomHandler._join_via_browser.  e.nav_ok: driver.get succeeded;
\* e.pwd_field: the password field appeared; e.join_btn: the Join button was
\* found.  send_keys(None) raises inside the inner try.
ZoomJoinViaBrowser(h, e) ==
    LET h1 == PreGrantPermissions(h, e.grant_ok)
    IN  IF h.url # None
        THEN IF e.nav_ok
             THEN Returned(Navigate(h1, UrlTarget(h.url)), "True")
             ELSE Returned(h1, "False")
        ELSE IF h.meeting_id = None \/ ~e.nav_ok
             THEN Returned(h1, "False")
             ELSE LET h2 == Navigate(h1, ZoomJoinById(h.meeting_id))
                  IN  IF e.pwd_field /\ h.password # None
                      THEN IF e.join_btn
                           THEN Returned(Emit(Emit(h2, "password"), "click_join"), "True")
                           ELSE Returned(Emit(h2, "password"), "True")
                      ELSE Returned(h2, "True")

\* TeamsHandler._join_via_browser: the Join button is required.
TeamsJoinViaBrowser(h, e) ==
    LET h1 == PreGrantPermissions(h, e.grant_ok)
    IN  IF h.url = None \/ ~e.nav_ok
        THEN Returned(h1, "False")
        ELSE LET h2 == Navigate(h1, UrlTarget(h.url))
             IN  IF e.join_btn
                 THEN Returned(Emit(h2, "click_join"), "True")
                 ELSE Returned(h2, "False")

\* GoogleMeetHandler._join_via_browser: "Join now" is waited for with a
\* timeout keyword WebDriverWait.until does not take, so only "Ask to join"
\* (e.join_btn) can be clicked.
GoogleMeetJoinViaBrowser(h, e) ==
    LET h1 == PreGrantPermissions(h, e.grant_ok)
        target == IF h.url # None THEN UrlTarget(h.url) ELSE MeetById(h.meeting_id)
    IN  IF (h.url = None /\ h.meeting_id = None) \/ ~e.nav_ok
        THEN Returned(h1, "False")
        ELSE LET h2 == Navigate(h1, target)
             IN  IF e.join_btn
                 THEN Returned(Emit(h2, "click_join"), "True")
                 ELSE Returned(h2, "False")

JoinViaBrowser(h, e) ==
    CASE h.platform = "zoom" -> ZoomJoinViaBrowser(h, e)
      [] h.platform = "teams" -> TeamsJoinViaBrowser(h, e)
      [] OTHER -> GoogleMeetJoinViaBrowser(h, e)

\* The finally clause of join_meeting.
JoinMeetingFinally(h) ==
    [(IF ~h.app_installed THEN Cleanup(h) ELSE h) EXCEPT !.pc = "done"]

\* ------------------------------------------------------------- the state
VARIABLES
    now,               \* the wall clock, in minutes
    constructed,       \* MeetingManager.__init__ has returned
    meetings,          \* self.meetings
    file,              \* meetings.json on disk
    jobs,              \* the job registry of the schedule module
    running,           \* self.running
    scheduler_thread,  \* self.scheduler_thread: a thread id or None
    threads,           \* per thread: where it is in _scheduler_loop
    fg,                \* the foreground context: idle, or inside stop_scheduler
    last,              \* the operation that made the last step, and its result
    fired,             \* ids with a join attempt started since they were registered
    failures,          \* ids with a join attempt that returned failure or raised
    handler            \* the platform handler of one join attempt

managerVars == <<now, constructed, meetings, file, jobs, running, scheduler_thread,
                 threads, fg, last, fired, failures>>

vars == <<now, constructed, meetings, file, jobs, running, scheduler_thread,
          threads, fg, last, fired, failures, handler>>

Event(op, id, ret) == [op |-> op, id |-> id, ret |-> ret]

DeadThread == [pc |-> "dead", pending |-> << >>, cur |-> 0]

\* Snapshot files found at the first start: none, unparsable ones, and
\* mappings with one well-formed and one malformed record.
GoodRecord == Record(Meeting("m1", "PlatformType.ZOOM", Naive(2), None, "123456789", FALSE))
OtherRecord == Record(Meeting("m2", "PlatformType.TEAMS", Naive(MinPerDay + 1),
                              "https://teams.microsoft.com/l/1", None, FALSE))
NoStartTime(r) == [r EXCEPT !.start_time = [kind |-> "none", t |-> 0, aware |-> FALSE]]
NoDuration(r) == [r EXCEPT !.duration = [kind |-> "none", v |-> 0]]
Malformed(r) == r.start_time.kind # "iso" \/ r.duration.kind # "num"

InitialFiles ==
    { File("absent", << >>), File("corrupt", << >>), File("not_mapping", << >>),
      File("ok", <<GoodRecord, NoStartTime(OtherRecord)>>),
      File("ok", <<NoDuration(OtherRecord), GoodRecord>>) }

Init ==
    /\ now = 0
    /\ constructed = FALSE
    /\ meetings = << >>
    /\ file \in InitialFiles
    /\ jobs = << >>
    /\ running = FALSE
    /\ scheduler_thread = None
    /\ threads = [th \in ThreadIds |-> DeadThread]
    /\ fg = "idle"
    /\ last = Event("init", None, None)
    /\ fired = {}
    /\ failures = {}
    /\ handler = NoHandler

\* ------------------------------------------------------------ the actions
\* MeetingManager(): the registry starts empty and load_meetings() fills it.
Construct ==
    /\ ~constructed
    /\ LET r == LoadMeetings(file, << >>, jobs, now)
       IN  /\ meetings' = r.meetings
           /\ jobs' = r.jobs
           /\ constructed' = ~r.raised
           /\ last' = Event("load", None, IF r.raised THEN "raise" ELSE None)
    /\ UNCHANGED <<handler, now, file, running, scheduler_thread, threads, fg, fired, failures>>

\* add_meeting(m), from the foreground context.
AddMeeting(m) ==
    /\ constructed /\ fg = "idle"
    /\ Len(jobs) < MaxJobs
    /\ LET r == AddMeetingResult(m, meetings, file, jobs, now)
       IN  /\ meetings' = r.meetings
           /\ file' = r.file
           /\ jobs' = r.jobs
           /\ last' = Event("add", m.id, r.ret)
           /\ fired' = IF r.ret = "False" THEN fired ELSE fired \ {m.id}
           /\ failures' = IF r.ret = "False" THEN failures ELSE failures \ {m.id}
    /\ UNCHANGED <<handler, now, constructed, running, scheduler_thread, threads, fg>>

\* remove_meeting(id), from the foreground context.
RemoveMeeting(id) ==
    /\ constructed /\ fg = "idle"
    /\ LET r == RemoveMeetingResult(id, meetings, file)
       IN  /\ meetings' = r.meetings
           /\ file' = r.file
           /\ last' = Event("remove", id, r.ret)
    /\ UNCHANGED <<handler, now, constructed, jobs, running, scheduler_thread, threads, fg, fired, failures>>

\* add_meeting(m) on a disk that cannot be written.
AddMeetingWriteFails(m, left) ==
    /\ constructed /\ fg = "idle"
    /\ LET r == AddMeetingSaveRaises(m, meetings, file, jobs, left)
       IN  /\ meetings' = r.meetings
           /\ file' = r.file
           /\ jobs' = r.jobs
           /\ last' = Event("add", m.id, r.ret)
    /\ UNCHANGED <<handler, now, constructed, running, scheduler_thread, threads, fg, fired,
                   failures>>

\* remove_meeting(id) on a disk that cannot be written.
RemoveMeetingWriteFails(id, left) ==
    /\ constructed /\ fg = "idle"
    /\ LET r == RemoveMeetingSaveRaises(id, meetings, file, left)
       IN  /\ meetings' = r.meetings
           /\ file' = r.file
           /\ last' = Event("remove", id, r.ret)
    /\ UNCHANGED <<handler, now, constructed, jobs, running, scheduler_thread, threads, fg, fired,
                   failures>>

\* start_scheduler(): unless running, a new thread th enters _scheduler_loop.
StartScheduler(th) ==
    /\ constructed /\ fg = "idle"
    /\ IF running
       THEN /\ UNCHANGED <<running, scheduler_thread, threads>>
            /\ last' = Event("start", None, "noop")
       ELSE /\ threads[th].pc = "dead"
            /\ running' = TRUE
            /\ scheduler_thread' = th
            /\ threads' = [threads EXCEPT ![th] = [pc |-> "check", pending |-> << >>, cur |-> 0]]
            /\ last' = Event("start", None, th)
    /\ UNCHANGED <<handler, now, constructed, meetings, file, jobs, fg, fired, failures>>

\* stop_scheduler(), up to the join: running is cleared.
StopScheduler ==
    /\ constructed /\ fg = "idle"
    /\ running' = FALSE
    /\ fg' = IF scheduler_thread = None THEN "idle" ELSE "stop_join"
    /\ last' = Event("stop", None, IF scheduler_thread = None THEN "returned" ELSE "joining")
    /\ UNCHANGED <<handler, now, constructed, meetings, file, jobs, scheduler_thread, threads, fired, failures>>

\* scheduler_thread.join(timeout=1) returns: the thread ended, or one second
\* went by.  The second runs out only while the thread is inside a join
\* attempt, which drives a browser for longer than that; a thread in its
\* sleep or between two jobs ends, or reaches the attempt, first.
StopSchedulerReturn ==
    /\ fg = "stop_join"
    /\ \A th \in ThreadIds : threads[th].pc \in {"dead", "joining"}
    /\ fg' = "idle"
    /\ last' = Event("stop", None, "returned")
    /\ UNCHANGED <<handler, now, constructed, meetings, file, jobs, running, scheduler_thread,
                   threads, fired, failures>>

\* _scheduler_loop: the test of self.running after the sleep, and the list
\* of runnable jobs run_pending() takes.
SchedulerLoop(th) ==
    /\ threads[th].pc = "check"
    /\ IF running
       THEN LET due == RunnableJobs(jobs, now)
            IN  /\ due # << >>
                /\ threads' = [threads EXCEPT ![th] = [pc |-> "cycle", pending |-> due, cur |-> 0]]
                /\ last' = Event("wake", None, th)
       ELSE /\ threads' = [threads EXCEPT ![th] = DeadThread]
            /\ last' = Event("exit", None, th)
    /\ UNCHANGED <<handler, now, constructed, meetings, file, jobs, running, scheduler_thread, fg, fired, failures>>

AfterJob(th, rest) ==
    [pc |-> IF rest = << >> THEN "check" ELSE "cycle", pending |-> rest, cur |-> 0]

\* run_pending() running the next job of its list on a join_meeting that
\* does not test `meeting_id in self.meetings` and builds the handler from
\* the id.
RunJobNoMembershipTest(th) ==
    /\ threads[th].pc = "cycle"
    /\ LET j == Head(threads[th].pending)
           rest == Tail(threads[th].pending)
       IN  /\ threads' = [threads EXCEPT ![th] = [pc |-> "joining", pending |-> rest, cur |-> j]]
           /\ jobs' = jobs
           /\ fired' = fired \cup {jobs[j].tag}
           /\ last' = Event("attempt", jobs[j].tag, "started")
    /\ UNCHANGED <<handler, now, constructed, meetings, file, running, scheduler_thread, fg,
                   failures>>

\* run_pending() runs the next job of its list: join_meeting(meeting_id)
\* tests `meeting_id in self.meetings`.
RunJob(th) ==
    /\ threads[th].pc = "cycle"
    /\ LET j == Head(threads[th].pending)
           rest == Tail(threads[th].pending)
       IN  IF jobs[j].tag \in Keys(meetings)
           THEN /\ threads' = [threads EXCEPT ![th] = [pc |-> "lookup", pending |-> rest, cur |-> j]]
                /\ jobs' = jobs
                /\ last' = Event("fire", jobs[j].tag, "found")
           ELSE /\ threads' = [threads EXCEPT ![th] = AfterJob(th, rest)]
                /\ jobs' = JobRan(jobs, j, now)
                /\ last' = Event("fire", jobs[j].tag, "absent")
    /\ UNCHANGED <<handler, now, constructed, meetings, file, running, scheduler_thread, fg, fired, failures>>

\* join_meeting: meeting = self.meetings[meeting_id], then the handler is
\* created and its join_meeting called.  A KeyError is raised outside the
\* try and ends the thread.
StartAttempt(th) ==
    /\ threads[th].pc = "lookup"
    /\ LET id == jobs[threads[th].cur].tag
       IN  IF id \in Keys(meetings)
           THEN /\ threads' = [threads EXCEPT ![th].pc = "joining"]
                /\ fired' = fired \cup {id}
                /\ last' = Event("attempt", id, "started")
           ELSE /\ threads' = [threads EXCEPT ![th] = DeadThread]
                /\ fired' = fired
                /\ last' = Event("attempt", id, "raise")
    /\ UNCHANGED <<handler, now, constructed, meetings, file, jobs, running, scheduler_thread, fg,
                   failures>>

\* join_meeting dropping a joined meeting from the registry and saving.
EndAttemptRecordsOutcome(th, outcome) ==
    /\ threads[th].pc = "joining"
    /\ threads' = [threads EXCEPT ![th] = AfterJob(th, threads[th].pending)]
    /\ jobs' = JobRan(jobs, threads[th].cur, now)
    /\ last' = Event("joined", jobs[threads[th].cur].tag, outcome)
    /\ failures' = IF outcome = "success"
                   THEN failures
                   ELSE failures \cup {jobs[threads[th].cur].tag}
    /\ meetings' = IF outcome = "success"
                   THEN DictDel(meetings, jobs[threads[th].cur].tag)
                   ELSE meetings
    /\ file' = IF outcome = "success" THEN SaveMeetings(meetings') ELSE file
    /\ UNCHANGED <<handler, now, constructed, running, scheduler_thread, fg, fired>>

\* The handler's join_meeting returns or raises; join_meeting prints the
\* outcome and returns, and the job is scheduled for its next run.
EndAttempt(th, outcome) ==
    /\ threads[th].pc = "joining"
    /\ threads' = [threads EXCEPT ![th] = AfterJob(th, threads[th].pending)]
    /\ jobs' = JobRan(jobs, threads[th].cur, now)
    /\ last' = Event("joined", jobs[threads[th].cur].tag, outcome)
    /\ failures' = IF outcome = "success"
                 THEN failures
                 ELSE failures \cup {jobs[threads[th].cur].tag}
    /\ UNCHANGED <<handler, now, constructed, meetings, file, running, scheduler_thread, fg, fired>>

\* A minute goes by.
Tick ==
    /\ now < MaxTime
    /\ now' = now + 1
    /\ last' = Event("tick", None, None)
    /\ UNCHANGED <<handler, constructed, meetings, file, jobs, running, scheduler_thread,
                   threads, fg, fired, failures>>

\* The process ends and main() runs again: only the snapshot file survives.
Restart ==
    /\ constructed
    /\ constructed' = FALSE
    /\ meetings' = << >>
    /\ jobs' = << >>
    /\ running' = FALSE
    /\ scheduler_thread' = None
    /\ threads' = [th \in ThreadIds |-> DeadThread]
    /\ fg' = "idle"
    /\ fired' = {}
    /\ failures' = {}
    /\ last' = Event("restart", None, None)
    /\ UNCHANGED <<handler, now, file>>

\* ---------------------------------------------------- the join attempt
Platforms == {"zoom", "teams", "google_meet"}
Optional(v) == {None, v}

\* What the collaborators answer during the prologue, the reconciliation
\* and the browser join.
RouteEnv == [driver_ok : BOOLEAN, grant_ok : BOOLEAN, installed : BOOLEAN]
AccountEnv ==
    [current : {None, "A@X.com", "b@x.com"},
     decision : {"switch", "keep", "abort", "error"},
     logout_ok : BOOLEAN, secret : BOOLEAN, login_ok : BOOLEAN, indicator : BOOLEAN]
BrowserEnv == [grant_ok : BOOLEAN, nav_ok : BOOLEAN, pwd_field : BOOLEAN, join_btn : BOOLEAN]

\* get_handler handing out the handler object of the attempt before, as it
\* was left.
GetHandlerReused(platform, forced) ==
    /\ handler.pc \in {"none", "done"}
    /\ handler.instance < MaxHandlers
    /\ handler' = [handler EXCEPT !.pc = "ready", !.platform = platform,
                                  !.use_browser = forced, !.instance = @ + 1,
                                  !.events = << >>, !.ret = None]
    /\ UNCHANGED managerVars

\* get_handler(platform): a new handler object; forced: the caller sets
\* use_browser.
GetHandler(platform, forced) ==
    /\ handler.pc \in {"none", "done"}
    /\ handler.instance < MaxHandlers
    /\ handler' = [NewHandler(platform) EXCEPT !.use_browser = forced,
                                               !.instance = handler.instance + 1]
    /\ UNCHANGED managerVars

\* handler.join_meeting(url, meeting_id, password, required_email), up to
\* the route decision.
JoinMeeting(url, mid, pwd, email, e) ==
    /\ handler.pc = "ready"
    /\ handler' = JoinMeetingRoute([handler EXCEPT !.url = url, !.meeting_id = mid,
                                                   !.password = pwd, !.required_email = email], e)
    /\ UNCHANGED managerVars

Reconcile(e) ==
    /\ handler.pc = "reconcile"
    /\ handler' = JoinMeetingReconcile(handler, e)
    /\ UNCHANGED managerVars

AppJoin(ok) ==
    /\ handler.pc = "app"
    /\ handler' = JoinViaApp(handler, ok)
    /\ UNCHANGED managerVars

BrowserJoin(e) ==
    /\ handler.pc = "browser"
    /\ handler' = JoinViaBrowser(handler, e)
    /\ UNCHANGED managerVars

Finally ==
    /\ handler.pc = "finally"
    /\ handler' = JoinMeetingFinally(handler)
    /\ UNCHANGED managerVars

HandlerNext ==
    \/ \E platform \in Platforms, forced \in BOOLEAN : GetHandler(platform, forced)
    \/ \E url \in Optional("https://example.com/j/1"), mid \in Optional("123456789"),
          pwd \in Optional("pw"), email \in Optional("a@x.com"), e \in RouteEnv :
          JoinMeeting(url, mid, pwd, email, e)
    \/ \E e \in AccountEnv : Reconcile(e)
    \/ \E ok \in BOOLEAN : AppJoin(ok)
    \/ \E e \in BrowserEnv : BrowserJoin(e)
    \/ Finally

\* One platform handler and its join attempts, the manager left aside and
\* no snapshot on disk.
HandlerInit == Init /\ file = File("absent", << >>)

HandlerSpec == HandlerInit /\ [][HandlerNext]_vars

\* The foreground context alone: construction, registration, removal, the
\* clock and restarts.
StoreNext ==
    \/ Construct
    \/ \E m \in MeetingPool : AddMeeting(m)
    \/ \E id \in MeetingIds : RemoveMeeting(id)
    \/ Tick
    \/ Restart

\* The Scheduler with its background threads among T.
SchedulerNext(T) ==
    \/ \E th \in T : StartScheduler(th)
    \/ StopScheduler
    \/ StopSchedulerReturn
    \/ \E th \in T : SchedulerLoop(th)
    \/ \E th \in T : RunJob(th)
    \/ \E th \in T : StartAttempt(th)
    \/ \E th \in T, outcome \in {"success", "failure", "raise"} : EndAttempt(th, outcome)

Next == StoreNext \/ SchedulerNext({"t1"})

\* The whole manager, with one scheduler thread at a time.
Spec == Init /\ [][Next]_vars

\* The Store without the Scheduler's thread, which writes neither the
\* registry, nor the snapshot, nor the set of registered jobs.
StoreSpec == Init /\ [][StoreNext]_vars

\* The Store on a disk whose writes may fail.
PersistNext ==
    \/ StoreNext
    \/ \E m \in MeetingPool : \E left \in FailedWrite(file) : AddMeetingWriteFails(m, left)
    \/ \E id \in MeetingIds : \E left \in FailedWrite(file) : RemoveMeetingWriteFails(id, left)

PersistSpec == Init /\ [][PersistNext]_vars

\* The Scheduler started and stopped over and over: every start_scheduler()
\* makes a new Thread object, so a second one may come while the first has
\* not ended.  The registry changes by registration only.
ThreadsInit == Init /\ file = File("absent", << >>)

ThreadsNext ==
    \/ Construct
    \/ \E m \in {p \in MeetingPool : p.id = "m1"} : AddMeeting(m)
    \/ Tick
    \/ SchedulerNext(ThreadIds)

ThreadsSpec == ThreadsInit /\ [][ThreadsNext]_vars

\* The Scheduler started once and never stopped, next to a foreground that
\* registers and removes meetings.
LiveNext ==
    \/ Construct
    \/ \E m \in MeetingPool : AddMeeting(m)
    \/ \E id \in MeetingIds : RemoveMeeting(id)
    \/ Tick
    \/ StartScheduler("t1")
    \/ SchedulerLoop("t1")
    \/ RunJob("t1")
    \/ StartAttempt("t1")
    \/ \E outcome \in {"success", "failure", "raise"} : EndAttempt("t1", outcome)

\* Time goes by; the daemon thread is scheduled again and again, so each step
\* of its loop that stays possible is taken; every join attempt terminates.
LiveFairness ==
    /\ WF_vars(Tick)
    /\ WF_vars(SchedulerLoop("t1"))
    /\ WF_vars(RunJob("t1"))
    /\ WF_vars(StartAttempt("t1"))
    /\ WF_vars(\E outcome \in {"success", "failure", "raise"} : EndAttempt("t1", outcome))

LiveSpec == ThreadsInit /\ [][LiveNext]_vars /\ LiveFairness

\* ------------------------------------------------------------ the claims
Entries(ms, id) == {i \in 1..Len(ms) : ms[i].id = id}

\* A meeting the handlers can join: Teams joins by url only, Zoom and Google
\* Meet by url or by meeting id.
HasJoinTarget(platform, url, mid) ==
    IF platform \in {"PlatformType.TEAMS", "teams"}
    THEN url # None
    ELSE url # None \/ mid # None

\* C1: add_meeting(M) with M.id already a key of the Store returns False and
\* leaves the Store unchanged: registry and snapshot are what they were, and
\* the registry still holds exactly one entry for that id.
C1_DuplicateAddRejected ==
    [][(last'.op = "add" /\ last'.id \in Keys(meetings)) =>
          /\ last'.ret = "False"
          /\ meetings' = meetings
          /\ file' = file
          /\ Cardinality(Entries(meetings', last'.id)) = 1]_vars

\* A second add_meeting for an id of the Store has returned.
C1_Witness ==
    /\ last.op = "add" /\ last.ret = "False"
    /\ Cardinality(Entries(meetings, last.id)) = 1
    /\ Len(meetings) = 2

\* A thread starts a join attempt for the meeting of job j: it passes from
\* the lookup of the meeting into the handler.
AttemptStarts(th) == threads[th].pc = "lookup" /\ threads'[th].pc = "joining"

\* C2: once a join attempt was started for a meeting, no later wake cycle
\* starts another one for it.  Stated for an id with a single registered
\* trigger, registered once.
C2_TriggerFiresOnce ==
    [][\A th \in ThreadIds :
          (AttemptStarts(th) /\ TriggerCount(jobs, jobs[threads[th].cur].tag) = 1) =>
              jobs[threads[th].cur].tag \notin fired]_vars

\* C3: every join attempt for a scheduled meeting starts at or after
\* fire_time = start_time - 1 minute.  Stated for an id with a single
\* registered trigger.
C3_NeverBeforeFireTime ==
    [][\A th \in ThreadIds :
          (AttemptStarts(th) /\ TriggerCount(jobs, jobs[threads[th].cur].tag) = 1) =>
              now >= JoinTime(Get(meetings, jobs[threads[th].cur].tag))]_vars

\* C4: the Scheduler holds at most one pending trigger per meeting id.
C4_OneTriggerPerMeeting ==
    \A id \in MeetingIds : TriggerCount(jobs, id) <= 1

\* C5: for a Store whose meetings carry timezone-aware start times,
\* load_meetings of the snapshot save_meetings writes, in a fresh Store,
\* gives the same ids and for each id the same platform, start_time and
\* duration.
C5_RoundTrip ==
    (constructed /\ \A i \in 1..Len(meetings) :
                        /\ meetings[i].start_time.aware
                        /\ HasJoinTarget(meetings[i].platform, meetings[i].url,
                                         meetings[i].meeting_id)) =>
        LET r == LoadMeetings(SaveMeetings(meetings), << >>, << >>, now)
        IN  /\ Keys(r.meetings) = Keys(meetings)
            /\ \A id \in Keys(meetings) :
                  /\ Get(r.meetings, id).platform = Get(meetings, id).platform
                  /\ Get(r.meetings, id).start_time = Get(meetings, id).start_time
                  /\ Get(r.meetings, id).duration = Get(meetings, id).duration

\* C6: a meeting without the url or meeting id its platform needs is
\* rejected by add_meeting: it enters neither the Store nor the snapshot.
C6_InvalidMeetingRejected ==
    /\ \A i \in 1..Len(meetings) :
          HasJoinTarget(meetings[i].platform, meetings[i].url, meetings[i].meeting_id)
    /\ file.state = "ok" =>
          \A i \in 1..Len(file.recs) :
              HasJoinTarget(file.recs[i].platform, file.recs[i].url, file.recs[i].meeting_id)

\* C7: when the snapshot is a mapping with a malformed record, load_meetings
\* skips only that record: every well-formed record is in the Store.
C7_MalformedRecordSkipped ==
    (last.op = "load" /\ file.state = "ok"
       /\ \E i \in 1..Len(file.recs) : Malformed(file.recs[i])) =>
        \A i \in 1..Len(file.recs) :
            ~Malformed(file.recs[i]) => file.recs[i].id \in Keys(meetings)

\* C8: load_meetings never raises: construction completes, and with the
\* snapshot absent or unparsable at top level the registry is empty.
C8_LoadNeverRaises ==
    last.op = "load" =>
        /\ last.ret = None
        /\ constructed
        /\ file.state # "ok" => meetings = << >>

\* The manager was constructed over an unparsable snapshot.
C8_Witness ==
    last.op = "load" /\ file.state = "corrupt" /\ constructed /\ meetings = << >>

\* C9: a meeting with start_time in the past and recurring false gets no
\* trigger when it enters the Store, by add_meeting or by load_meetings.
C9_PastMeetingNotScheduled ==
    [][/\ (last'.op = "add" /\ last'.ret # "False") =>
             LET m == Get(meetings', last'.id)
             IN  (m.start_time.t < now /\ ~m.recurring) =>
                     TriggerCount(jobs', m.id) = TriggerCount(jobs, m.id)
       /\ (last'.op = "load" /\ file.state = "ok") =>
             \A i \in 1..Len(file.recs) :
                 LET d == file.recs[i]
                 IN  (~Malformed(d) /\ d.start_time.t < now /\ ~d.recurring) =>
                         TriggerCount(jobs', d.id) = TriggerCount(jobs, d.id)]_vars

\* A snapshot with a past, non-recurring meeting was loaded into the Store
\* and the meeting has no trigger.
C9_Witness ==
    /\ last.op = "load" /\ meetings # << >>
    /\ \E i \in 1..Len(meetings) :
          /\ meetings[i].start_time.t < now /\ ~meetings[i].recurring
          /\ TriggerCount(jobs, meetings[i].id) = 0

\* C10: on the browser path with required_email set, when the account found
\* differs from required_email and the decision is abort, join_meeting
\* returns failure and the browser is not sent to the meeting.
C10_AbortFailsWithoutNavigation ==
    (handler.pc = "done" /\ handler.required_email # None /\ Did(handler, "dialog_abort")) =>
        (handler.ret = "False" /\ ~Did(handler, "navigate"))

\* The attempt went by the browser: the route test of join_meeting sent it
\* there (no native app, or use_browser set), or _join_via_app fell back to
\* it, which sets use_browser.
BrowserPathUsed(h) == h.use_browser \/ ~h.app_installed

\* C11: whenever a join attempt used the browser path, the WebDriver is torn
\* down by the time join_meeting returns, whatever the outcome and whether
\* or not a native application is installed.
C11_DriverTornDown ==
    (handler.pc = "done" /\ BrowserPathUsed(handler)) => ~handler.driver

\* The credential store was asked for the secret of required_email and held
\* none: the login stopped before the sign-in page.
LoginWithoutSecret(h) == Did(h, "credential") /\ ~Did(h, "signin")

\* C12: when reconciliation needs a login for required_email and the
\* credential store holds no secret for it, join_meeting returns failure and
\* the browser is not sent to the meeting.
C12_NoSecretFailsWithoutNavigation ==
    (handler.pc = "done" /\ handler.required_email # None /\ LoginWithoutSecret(handler)) =>
        (handler.ret = "False" /\ ~Did(handler, "navigate"))

\* What reconciliation does to its collaborators: the account probe, the
\* credential store and the sign-in form, the logout, the mismatch dialog.
AccountEvents ==
    {"probe", "credential", "signin", "indicator", "google", "logout", "delete_cookies",
     "dialog_switch", "dialog_keep", "dialog_abort", "dialog_error"}

\* C13: in a join attempt with required_email absent, on any platform and
\* either route, the mismatch dialog is never shown and there is no account
\* probe, logout or login.
C13_NoReconciliationWithoutEmail ==
    handler.required_email = None =>
        \A i \in 1..Len(handler.events) : handler.events[i] \notin AccountEvents

\* An attempt without required_email went by the browser to the meeting, on
\* a handler whose native app is not installed, and has returned.
C13_Witness ==
    /\ handler.pc = "done" /\ handler.required_email = None
    /\ Did(handler, "navigate") /\ handler.ret = "True"

\* The positions of event e in the attempt of h.
Positions(h, e) == {i \in 1..Len(h.events) : h.events[i] = e}

\* The zoom meeting of the scenario: no url, meeting id and password given,
\* no native app.
ZoomByIdAttempt(h) ==
    /\ h.platform = "zoom" /\ h.url = None
    /\ h.meeting_id = "123456789" /\ h.password = "pw"
    /\ ~h.app_installed

\* C14: for a zoom meeting with url absent, meeting id 123456789 and
\* password pw, with no native app, the attempt goes by the browser, the
\* navigation target is the join-by-id URL with the id embedded, and the
\* password is typed before the join button is clicked.
C14_ZoomJoinById ==
    (handler.pc = "done" /\ ZoomByIdAttempt(handler)) =>
        /\ ~Did(handler, "spawn")
        /\ Did(handler, "navigate") =>
              /\ handler.target = [base |-> "https://zoom.us/wc/join/", id |-> "123456789"]
              /\ handler.ret = "True"
        /\ \A i \in Positions(handler, "password") :
              \E n \in Positions(handler, "navigate") : n < i
        /\ \A i \in Positions(handler, "click_join") :
              i > 1 /\ handler.events[i - 1] = "password"

\* The attempt of the scenario went to the join-by-id page, typed the
\* password and clicked Join.
C14_Witness ==
    /\ handler.pc = "done" /\ ZoomByIdAttempt(handler)
    /\ handler.target = [base |-> "https://zoom.us/wc/join/", id |-> "123456789"]
    /\ Did(handler, "password") /\ Did(handler, "click_join")
    /\ ~handler.driver

\* C15: after a join attempt for a meeting returned failure or raised, the
\* Scheduler starts no other join attempt for that meeting.  Stated for an
\* id with a single registered trigger, registered once.
C15_NoRetryAfterFailure ==
    [][\A th \in ThreadIds :
          (AttemptStarts(th) /\ TriggerCount(jobs, jobs[threads[th].cur].tag) = 1) =>
              jobs[threads[th].cur].tag \notin failures]_vars

\* A thread is inside a wake cycle: in run_pending(), between taking the
\* runnable jobs and the return of the last of them.
InWakeCycle(th) == threads[th].pc \in {"cycle", "lookup", "joining"}

\* stop_scheduler() has returned and start_scheduler() was not called since.
StopReturned == ~running /\ fg = "idle" /\ scheduler_thread # None

\* C16: when stop_scheduler returns, the background loop has terminated: no
\* thread is still executing a wake cycle.
C16_StopWaitsForLoop ==
    (last.op = "stop" /\ last.ret = "returned") =>
        \A th \in ThreadIds : ~InWakeCycle(th)

\* C17: after stop_scheduler has returned, the Scheduler starts no new join
\* attempt, also when several triggers were due in the wake cycle in
\* progress when stop was requested.  Stated for an id with a single
\* registered trigger.
C17_NoAttemptAfterStop ==
    [][\A th \in ThreadIds :
          (AttemptStarts(th) /\ TriggerCount(jobs, jobs[threads[th].cur].tag) = 1) =>
              ~StopReturned]_vars

\* C18: add_meeting of a valid meeting whose id is not in the Store, with a
\* start_time naive or timezone-aware, past or future, returns True with the
\* meeting in the Store and the snapshot of the whole Store written.
C18_AddValidMeetingSucceeds ==
    [][(last'.op = "add" /\ last'.id \notin Keys(meetings)) =>
          /\ last'.id \in Keys(meetings')
          /\ LET m == Get(meetings', last'.id)
             IN  HasJoinTarget(m.platform, m.url, m.meeting_id) =>
                     /\ last'.ret = "True"
                     /\ file' = SaveMeetings(meetings')]_vars

\* C19: when registering the trigger fails in add_meeting, the meeting stays
\* in the Store and in the snapshot, and load_meetings of that snapshot
\* yields that meeting together with all the others.
C19_SchedulingFailureKeepsAdd ==
    (last.op = "add" /\ last.ret = "raise") =>
        /\ last.id \in Keys(meetings)
        /\ file = SaveMeetings(meetings)
        /\ Keys(LoadMeetings(file, << >>, << >>, now).meetings) = Keys(meetings)

\* The ids of the records of a snapshot.
FileKeys(f) == {f.recs[i].id : i \in 1..Len(f.recs)}

\* C20: remove_meeting(id) with id in the Store returns True, and id is then
\* in neither the Store nor the snapshot, every other meeting being as it
\* was in both; with id absent it returns False and changes neither.
C20_RemoveMeeting ==
    [][last'.op = "remove" =>
          IF last'.id \in Keys(meetings)
          THEN /\ last'.ret = "True"
               /\ Keys(meetings') = Keys(meetings) \ {last'.id}
               /\ \A o \in Keys(meetings') : Get(meetings', o) = Get(meetings, o)
               /\ file'.state = "ok"
               /\ FileKeys(file') = Keys(meetings')
               /\ \A i \in 1..Len(file'.recs) :
                     file'.recs[i] = Record(Get(meetings, file'.recs[i].id))
          ELSE /\ last'.ret = "False"
               /\ meetings' = meetings
               /\ file' = file]_vars

\* One of two meetings of the Store was removed: the other one is left, in
\* the Store and in the snapshot.
C20_Witness ==
    /\ last.op = "remove" /\ last.ret = "True"
    /\ Len(meetings) = 1
    /\ last.id \notin Keys(meetings) /\ last.id \notin FileKeys(file)
    /\ FileKeys(file) = Keys(meetings)

\* C21: the membership test and the retrieval of join_meeting observe one
\* registry state: a thread that found the id in the registry and is about
\* to retrieve the meeting still finds it there.
C21_LookupSeesTestedRegistry ==
    \A th \in ThreadIds :
        threads[th].pc = "lookup" => jobs[threads[th].cur].tag \in Keys(meetings)

\* C22: the route decision of join_meeting takes the native-app path if and
\* only if an application is installed for the platform and use_browser is
\* not set; otherwise the browser path; Google Meet never has an installed
\* application and never spawns one.
C22_RouteDecision ==
    [][(handler.pc = "ready" /\ handler'.pc # "finally") =>
          /\ handler'.pc \in {"app", "reconcile", "browser"}
          /\ handler'.pc = "app" <=> (handler'.app_installed /\ ~handler.use_browser)
          /\ handler'.platform = "google_meet" =>
                (~handler'.app_installed /\ handler'.pc # "app")]_vars

\* A zoom attempt with the application installed and the browser not forced
\* went by the application and spawned it.
C22_Witness ==
    /\ handler.pc = "done" /\ handler.platform = "zoom"
    /\ handler.app_installed /\ ~handler.use_browser
    /\ Did(handler, "spawn") /\ ~Did(handler, "navigate")

\* C23: a trigger firing leaves the registry and the snapshot as they were,
\* whether the join attempt succeeds, fails or raises.
C23_FiringLeavesStore ==
    [][last'.op \in {"fire", "attempt", "joined"} =>
          (meetings' = meetings /\ file' = file)]_vars

\* A join attempt has succeeded and its meeting is still in the registry and
\* in the snapshot.
C23_Witness ==
    /\ last.op = "joined" /\ last.ret = "success"
    /\ last.id \in Keys(meetings)
    /\ file = SaveMeetings(meetings)

\* The job registry holds a trigger for meeting m whose next run is the
\* fire time of m.
HasTriggerAtFireTime(js, m) ==
    \E j \in 1..Len(js) : js[j].tag = m.id /\ js[j].next_run = JoinTime(m)

\* C24: after add_meeting or load_meetings, every meeting of the Store whose
\* start_time is in the future has a pending trigger whose fire time is
\* start_time minus the lead time of 1 minute.  Stated for an add_meeting
\* that returned True.
C24_FutureMeetingHasTrigger ==
    [][((last'.op = "add" /\ last'.ret = "True") \/ last'.op = "load") =>
          \A i \in 1..Len(meetings') :
              meetings'[i].start_time.t > now =>
                  HasTriggerAtFireTime(jobs', meetings'[i])]_vars

\* C25: in a join attempt that sends the browser to the meeting with
\* required_email set, the probe of the authenticated account comes before
\* the navigation, also when the browser is reached after a spawn error.
C25_ReconcileBeforeNavigation ==
    (handler.required_email # None) =>
        \A n \in Positions(handler, "navigate") :
            \E i \in Positions(handler, "probe") : i < n

\* The probe of verify_account_match ran and found no account signed in.
ProbeFoundNone(h) == Did(h, "probe") /\ h.current_email = None

\* The mismatch dialog was shown.
DialogShown(h) ==
    \E d \in {"dialog_switch", "dialog_keep", "dialog_abort", "dialog_error"} : Did(h, d)

\* C26: when the probe finds no authenticated account, the handler attempts
\* the login with required_email (it asks the credential store for it) and
\* neither shows the mismatch dialog nor logs out.
C26_NoAccountMeansLogin ==
    ProbeFoundNone(handler) =>
        /\ Did(handler, "credential")
        /\ ~DialogShown(handler)
        /\ ~Did(handler, "logout")

\* No account was signed in and the login went as far as the sign-in form.
C26_Witness ==
    /\ handler.pc = "done" /\ ProbeFoundNone(handler)
    /\ Did(handler, "signin") /\ ~DialogShown(handler)

\* The probe found the account required_email names, letter case aside.
ProbeFoundRequired(h) ==
    /\ Did(h, "probe") /\ h.current_email # None
    /\ Lower(h.current_email) = Lower(h.required_email)

\* C27: when the authenticated account equals required_email without regard
\* to case, the handler goes on to the join: no dialog, no logout, no login,
\* and reconciliation reports success.
C27_MatchingAccountProceeds ==
    ProbeFoundRequired(handler) =>
        /\ ~DialogShown(handler)
        /\ ~Did(handler, "logout")
        /\ ~Did(handler, "credential") /\ ~Did(handler, "signin")
        /\ handler.account_ok = "True"

\* The account signed in is required_email in another letter case, and the
\* attempt went to the meeting.
C27_Witness ==
    /\ handler.pc = "done" /\ ProbeFoundRequired(handler)
    /\ handler.current_email # handler.required_email
    /\ Did(handler, "navigate")

\* C28: on a mismatch with decision switch, the logout comes before any
\* login, the login is attempted only when the logout succeeded (the cookies
\* were deleted), and reconciliation reports success only if that login
\* found the logged-in indicator; with decision keep there is neither
\* logout nor login.
C28_SwitchLogsOutFirst ==
    /\ Did(handler, "dialog_switch") =>
          /\ \A c \in Positions(handler, "credential") :
                \E o \in Positions(handler, "logout") :
                    o < c /\ handler.events[o + 1] = "delete_cookies"
          /\ handler.account_ok = "True" => Did(handler, "indicator")
    /\ Did(handler, "dialog_keep") =>
          /\ ~Did(handler, "logout")
          /\ ~Did(handler, "credential") /\ ~Did(handler, "signin")

\* The decision was switch, the logout and the login went through and
\* reconciliation reported success.
C28_Witness ==
    /\ handler.pc = "done" /\ Did(handler, "dialog_switch")
    /\ Did(handler, "delete_cookies") /\ Did(handler, "indicator")
    /\ handler.account_ok = "True"

\* C29: on each platform a login reports success only after the logged-in
\* indicator was found in that login: a reconciliation that went through a
\* login and reports success has the indicator as the last step of the login.
C29_LoginVerifiedByIndicator ==
    (Did(handler, "credential") /\ handler.account_ok = "True") =>
        \E c \in Positions(handler, "credential") :
            \E i \in Positions(handler, "indicator") :
                /\ c < i
                /\ \A k \in (i + 1)..Len(handler.events) :
                      handler.events[k] \notin AccountEvents

\* A zoom login with a stored secret found the indicator.
C29_Witness ==
    /\ handler.pc = "done" /\ handler.platform = "zoom"
    /\ Did(handler, "credential") /\ Did(handler, "indicator")
    /\ handler.account_ok = "True" /\ handler.current_email = None

\* C30: on Zoom and Teams, when spawning the application raises, the attempt
\* goes on by the browser with the same url, meeting id and password, and
\* what join_meeting returns is what the browser join returned.
C30_SpawnErrorFallsBack ==
    [][/\ (handler.pc = "app" /\ Did(handler', "spawn_error")) =>
             /\ handler'.pc = "browser"
             /\ handler'.platform \in {"zoom", "teams"}
             /\ handler'.use_browser
             /\ handler'.url = handler.url
             /\ handler'.meeting_id = handler.meeting_id
             /\ handler'.password = handler.password
       /\ (handler.pc = "browser" /\ Did(handler, "spawn_error")) =>
             /\ handler'.pc = "finally"
             /\ handler'.ret = "True" => Did(handler', "navigate")
       /\ (handler.pc = "finally" /\ Did(handler, "spawn_error")) =>
             handler'.ret = handler.ret]_vars

\* The spawn of the Teams application raised, and the attempt joined by the
\* browser and returned True.
C30_Witness ==
    /\ handler.pc = "done" /\ handler.platform = "teams"
    /\ Did(handler, "spawn_error") /\ Did(handler, "click_join")
    /\ handler.ret = "True"

\* The browser join looked for the join button and did not find it: on Teams
\* and Google Meet after the navigation, on Zoom after the password was
\* typed into the join-by-id form.
JoinButtonNotFound(h) ==
    /\ Did(h, "navigate") /\ ~Did(h, "click_join")
    /\ h.platform = "zoom" => Did(h, "password")

\* The meeting has nothing the browser of the platform can be sent to.
NoNavigationTarget(h) ==
    IF h.platform = "teams" THEN h.url = None ELSE h.url = None /\ h.meeting_id = None

\* C31: on the browser path of every platform, when the meeting has no
\* usable navigation target or the join button is not found, join_meeting
\* returns failure.
C31_RequiredStepFailure ==
    (handler.pc = "done" /\ BrowserPathUsed(handler)) =>
        /\ NoNavigationTarget(handler) => handler.ret = "False"
        /\ JoinButtonNotFound(handler) => handler.ret = "False"

\* C32: when a join attempt completes on the native-app path, the handler
\* holds no live WebDriver after join_meeting returned.
C32_NoDriverAfterAppJoin ==
    (handler.pc = "done" /\ Did(handler, "spawn")) => ~handler.driver

\* C36: join_meeting returns success only if the attempt spawned the native
\* application with a url or meeting id, or sent the browser to the meeting;
\* with url and meeting_id both absent nothing returns success.
C36_SuccessMeansJoined ==
    (handler.pc = "done" /\ handler.ret = "True") =>
        /\ Did(handler, "spawn") \/ Did(handler, "navigate")
        /\ ~(handler.url = None /\ handler.meeting_id = None)

\* C33: every join attempt runs on a handler object of its own, with its own
\* WebDriver: the handler an attempt starts on holds no driver and has done
\* nothing yet, and a driver a handler holds was created by that handler.
C33_FreshHandlerPerAttempt ==
    /\ handler.pc = "ready" => (~handler.driver /\ handler.events = << >>)
    /\ handler.driver => Did(handler, "driver")

\* The second handler object ran its attempt by the browser on a driver it
\* created.
C33_Witness ==
    /\ handler.instance = 2 /\ handler.pc = "done"
    /\ Positions(handler, "driver") # {} /\ Did(handler, "navigate")

\* C34: no error raised while a trigger is executed ends the background
\* loop: as long as the scheduler is running (started and not stopped), its
\* thread is alive.
C34_LoopSurvivesErrors ==
    (running /\ scheduler_thread # None) => threads[scheduler_thread].pc # "dead"

\* A thread enters the handler call of join_meeting in this step.
HandlerInvoked(th) == threads[th].pc # "joining" /\ threads'[th].pc = "joining"

\* C38: once remove_meeting(id) returned True and id was not added again, no
\* trigger firing creates or calls a platform handler for id: a handler call
\* is entered only for an id of the Store, and a trigger that fires for an
\* id absent from the Store starts nothing.
C38_NoAttemptForRemovedMeeting ==
    [][\A th \in ThreadIds :
          /\ HandlerInvoked(th) => jobs[threads'[th].cur].tag \in Keys(meetings)
          /\ (threads[th].pc = "cycle" /\ threads'[th] # threads[th]
                /\ jobs[Head(threads[th].pending)].tag \notin Keys(meetings)) =>
                   /\ threads'[th].pc \in {"cycle", "check", "dead"}
                   /\ fired' \subseteq fired]_vars

\* The trigger of a meeting that was added and removed has fired and found
\* the id absent: no attempt was started.
C38_Witness ==
    /\ last.op = "fire" /\ last.ret = "absent"
    /\ last.id \notin Keys(meetings) /\ last.id \notin fired
    /\ file = SaveMeetings(meetings)
    /\ \A th \in ThreadIds : threads[th].pc # "joining"

\* C39: when writing the snapshot fails in add_meeting or remove_meeting,
\* the error reaches the caller and the registry is what it was before the
\* operation; for add_meeting no trigger is registered.
C39_FailedWriteLeavesRegistry ==
    [][(last'.op \in {"add", "remove"} /\ last'.ret = "raise_io") =>
          /\ meetings' = meetings
          /\ jobs' = jobs]_vars

\* The threads that are inside _scheduler_loop or a job it runs.
LiveLoops == {th \in ThreadIds : threads[th].pc # "dead"}

\* C37: after any sequence of start_scheduler and stop_scheduler calls, a
\* stop followed at once by a start during a join attempt included, at most
\* one background scheduler loop is running.
C37_AtMostOneLoop == Cardinality(LiveLoops) <= 1

\* A trigger tagged id is registered with the schedule library.
HasTrigger(id) == \E i \in 1..Len(jobs) : jobs[i].tag = id

\* Meeting id is registered with a trigger and a fire time still to come,
\* and start_scheduler() was called.
AwaitsFire(id) ==
    /\ running
    /\ id \in Keys(meetings)
    /\ HasTrigger(id)
    /\ JoinTime(Get(meetings, id)) > now

\* C35: with the Scheduler started and never stopped and every join attempt
\* terminating, each meeting registered with a fire time in the future
\* eventually has a join attempt started, unless it is removed.
C35_AttemptEventuallyStarts ==
    \A id \in MeetingIds : AwaitsFire(id) ~> (id \in fired \/ id \notin Keys(meetings))

====
